---------------------------- MODULE Spec2Model ----------------------------
(***************************************************************************)
(* A model of grr_response_core/lib/rdfvalue.py: the late-binding store of *)
(* the RDFValue metaclass and the value kinds RDFBytes, RDFString,         *)
(* RDFInteger, RDFBool, RDFDatetime, RDFDatetimeSeconds, Duration,         *)
(* ByteSize, RDFURN and SessionID.                                         *)
(*                                                                         *)
(* Python strings are modelled as sequences of one-character strings, so   *)
(* that formatting and parsing are computed and not assumed.               *)
(***************************************************************************)
EXTENDS Integers, Sequences, FiniteSets, TLC

VARIABLES
  store,   \* _LATE_BINDING_STORE: a dict from a type name to its pending list
  types,   \* the classes declared so far, in declaration order
  log,     \* the callback invocations made so far, in order
  nreg,    \* how many RegisterLateBindingCallback calls were made
  heap,    \* the value instances alive: reference -> instance
  res      \* what the last operation returned or raised

vars == <<store, types, log, nreg, heap, res>>

lbvars == <<store, types, log, nreg>>

valvars == <<heap, res>>

(***************************************************************************)
(* Bounds of the model.                                                    *)
(***************************************************************************)
MaxReg == 3

MaxDecl == 3

MaxCoef == 2

MaxDigits == 2

MaxPath == 5

MaxCount == 3

MaxInt == 11

(***************************************************************************)
(* The late-binding store.                                                 *)
(***************************************************************************)
Names == {"A", "B"}

Callbacks == {"f", "g"}

KwargsSet == {"k1", "k2"}

\* _LATE_BINDING_STORE.setdefault(target_name, []).append((callback, kwargs))
\* Each appended tuple is a distinct object: id tells two registrations of
\* the same callback with the same kwargs apart.
StoreAppend(s, name, entry) ==
  [n \in DOMAIN s \cup {name} |->
     IF n = name
       THEN (IF name \in DOMAIN s THEN s[name] ELSE <<>>) \o <<entry>>
       ELSE s[n]]

\* The list returned by _LATE_BINDING_STORE.pop(name, [])
Popped(s, name) == IF name \in DOMAIN s THEN s[name] ELSE <<>>

\* A plausible slip: .get(name, []) in place of .pop(name, [])
StoreAfterGet(s, name) == s

\* The store after _LATE_BINDING_STORE.pop(name, [])
StoreAfterPop(s, name) == [n \in DOMAIN s \ {name} |-> s[n]]

\* A plausible slip: the popped entries called last registered first
InvocationsReversed(queue, cls) ==
  [i \in 1..Len(queue) |->
     [cb |-> queue[Len(queue) + 1 - i].cb,
      kwargs |-> queue[Len(queue) + 1 - i].kwargs,
      id |-> queue[Len(queue) + 1 - i].id,
      target |-> cls]]

\* callback(target=cls, **kwargs) for each popped entry, in list order
Invocations(queue, cls) ==
  [i \in 1..Len(queue) |->
     [cb |-> queue[i].cb, kwargs |-> queue[i].kwargs, id |-> queue[i].id,
      target |-> cls]]

\* No value instance is constructed while the store is exercised.
NoValue == [tag |-> "none"]

LBInit ==
  /\ store = [n \in {} |-> <<>>]
  /\ types = <<>>
  /\ log = <<>>
  /\ nreg = 0
  /\ heap = <<>>
  /\ res = NoValue

RegisterLateBindingCallback(name, cb, kw) ==
  /\ nreg < MaxReg
  /\ nreg' = nreg + 1
  /\ store' = StoreAppend(store, name, [cb |-> cb, kwargs |-> kw, id |-> nreg + 1])
  /\ UNCHANGED <<types, log, heap, res>>

\* RDFValueMetaclass.__init__: a class named `name` is declared
DeclareType(name) ==
  /\ Len(types) < MaxDecl
  /\ LET cls == [name |-> name, serial |-> Len(types) + 1]
     IN /\ types' = Append(types, cls)
        /\ log' = log \o Invocations(Popped(store, name), cls)
        /\ store' = StoreAfterPop(store, name)
  /\ UNCHANGED <<nreg, heap, res>>

LBNext ==
  \/ \E name \in Names, cb \in Callbacks, kw \in KwargsSet :
       RegisterLateBindingCallback(name, cb, kw)
  \/ \E name \in Names : DeclareType(name)

SpecLB == LBInit /\ [][LBNext]_vars

IsDeclareStep(N) ==
  /\ Len(types') = Len(types) + 1
  /\ types'[Len(types')].name = N

NewInvocations == SubSeq(log', Len(log) + 1, Len(log'))

InvokedOnce ==
  \A i, j \in 1..Len(log') : log'[i].id = log'[j].id => i = j

(***************************************************************************)
(* C1: when a type named N is declared, every callback queued for N at     *)
(* that moment is invoked exactly once, with target the newly declared     *)
(* type and with the kwargs it was registered with, and afterwards the     *)
(* store holds no entry for N; no registration is ever invoked twice, so a *)
(* later declaration of another type named N does not invoke it again.     *)
(***************************************************************************)
C1_DeclareFiresQueuedOnce ==
  [][\A N \in Names :
       IsDeclareStep(N) =>
         LET q == IF N \in DOMAIN store THEN store[N] ELSE <<>>
             cls == types'[Len(types')]
         IN /\ Len(NewInvocations) = Len(q)
            /\ \A e \in 1..Len(q) :
                 Cardinality({i \in 1..Len(NewInvocations) :
                    /\ NewInvocations[i].id = q[e].id
                    /\ NewInvocations[i].cb = q[e].cb
                    /\ NewInvocations[i].kwargs = q[e].kwargs
                    /\ NewInvocations[i].target = cls}) = 1
            /\ N \notin DOMAIN store'
            /\ InvokedOnce]_vars

\* Two callbacks were queued for a name, the name was declared twice, and
\* both invocations went to the first declaration.
C1_Witness ==
  /\ Len(types) >= 2
  /\ types[1].name = types[2].name
  /\ Len(log) = 2
  /\ log[1].target = types[1]
  /\ log[2].target = types[1]
  /\ log[1].kwargs # log[2].kwargs

(***************************************************************************)
(* Text.  A Python str or unicode is a sequence of one-character strings.  *)
(***************************************************************************)
DigitSeq == <<"0", "1", "2", "3", "4", "5", "6", "7", "8", "9">>

DigitChars == {DigitSeq[i] : i \in 1..10}

DigitVal(c) == CHOOSE d \in 0..9 : DigitSeq[d + 1] = c

\* str.isdigit() of one character
IsDigit(c) == c \in DigitChars

RECURSIVE NatToStr(_)
NatToStr(n) ==
  IF n < 10 THEN <<DigitSeq[n + 1]>>
  ELSE NatToStr(n \div 10) \o <<DigitSeq[(n % 10) + 1]>>

\* str(n) and "%d" % n of an integer
IntToStr(n) == IF n < 0 THEN <<"-">> \o NatToStr(-n) ELSE NatToStr(n)

RECURSIVE DigitsToNat(_)
DigitsToNat(s) ==
  IF s = <<>> THEN 0
  ELSE 10 * DigitsToNat(SubSeq(s, 1, Len(s) - 1)) + DigitVal(s[Len(s)])

RECURSIVE LStrip(_)
LStrip(s) == IF s # <<>> /\ s[1] = " " THEN LStrip(Tail(s)) ELSE s

RECURSIVE RStrip(_)
RStrip(s) ==
  IF s # <<>> /\ s[Len(s)] = " " THEN RStrip(SubSeq(s, 1, Len(s) - 1)) ELSE s

\* str.strip()
Strip(s) == RStrip(LStrip(s))

\* the text of int(text) after its sign
Unsigned(s) ==
  LET t == Strip(s)
  IN IF t # <<>> /\ t[1] \in {"-", "+"} THEN Tail(t) ELSE t

\* int(text) succeeds: optional blanks, an optional sign, one or more digits
IsIntText(s) ==
  /\ Unsigned(s) # <<>>
  /\ \A i \in 1..Len(Unsigned(s)) : IsDigit(Unsigned(s)[i])

\* int(text), for a text on which it succeeds
ParseInt(s) ==
  LET t == Strip(s)
  IN IF t[1] = "-" THEN 0 - DigitsToNat(Unsigned(s)) ELSE DigitsToNat(Unsigned(s))

\* text.startswith(prefix)
StartsWith(s, prefix) ==
  /\ Len(s) >= Len(prefix)
  /\ SubSeq(s, 1, Len(prefix)) = prefix

\* All texts over an alphabet with 1..n characters
RECURSIVE TextsOver(_, _)
TextsOver(alphabet, n) ==
  IF n = 0 THEN {}
  ELSE {<<c>> : c \in alphabet}
       \cup {Append(s, c) : s \in TextsOver(alphabet, n - 1), c \in alphabet}

(***************************************************************************)
(* Value instances.  An instance has its class (kind), a payload (_value   *)
(* or _string_urn: text in s, a number in n), an age and the dirty flag.   *)
(* A reference is an index into heap; a method that returns a new instance *)
(* allocates it in the slot the receiver does not occupy.                  *)
(***************************************************************************)
Obj(kind, s, n, age, dirty) ==
  [kind |-> kind, s |-> s, n |-> n, age |-> age, dirty |-> dirty]

NoObj == Obj("none", <<>>, 0, 0, FALSE)

\* What a call left behind: the value returned or the exception raised, with
\* the call's argument and (where a claim reads it) the receiver as it was
\* before the call.
NoRes ==
  [tag |-> "none", ref |-> 0, err |-> "", text |-> <<>>, list |-> <<>>,
   arg |-> <<>>, num |-> 0, old |-> NoObj]

(***************************************************************************)
(* Duration                                                                *)
(***************************************************************************)
\* A plausible slip: a plain dict, whose iteration order is not the
\* declaration order (here: smallest unit first)
DIVIDERS_Unordered ==
  << <<"s", 1>>, <<"m", 60>>, <<"h", 60 * 60>>, <<"d", 60 * 60 * 24>>,
     <<"w", 60 * 60 * 24 * 7>> >>

\* Duration.DIVIDERS, an OrderedDict: iteration is in this order
DIVIDERS ==
  << <<"w", 60 * 60 * 24 * 7>>, <<"d", 60 * 60 * 24>>, <<"h", 60 * 60>>,
     <<"m", 60>>, <<"s", 1>> >>

DividerLabels == {DIVIDERS[i][1] : i \in 1..Len(DIVIDERS)}

\* self.DIVIDERS[label]
DividerOf(label) ==
  LET i == CHOOSE j \in 1..Len(DIVIDERS) : DIVIDERS[j][1] = label
  IN DIVIDERS[i][2]

\* Duration.__str__: the first divider, in iteration order, that divides
RECURSIVE DurationStrFrom(_, _)
DurationStrFrom(secs, i) ==
  IF i > Len(DIVIDERS) THEN <<"N", "o", "n", "e">>
  ELSE IF secs % DIVIDERS[i][2] = 0
    THEN IntToStr(secs \div DIVIDERS[i][2]) \o <<DIVIDERS[i][1]>>
    ELSE DurationStrFrom(secs, i + 1)

DurationStr(secs) == DurationStrFrom(secs, 1)

\* Duration.ParseFromHumanReadable: [err, n], the exception raised ("" when
\* none) and the payload afterwards
DurationParseFromHumanReadable(n, timestring) ==
  IF timestring = <<>> THEN [err |-> "", n |-> n]
  ELSE
    LET last == timestring[Len(timestring)]
        known == IsDigit(last) \/ last \in DividerLabels
        multiplicator == IF IsDigit(last) THEN 1 ELSE DividerOf(last)
        number == IF IsDigit(last) THEN timestring
                  ELSE SubSeq(timestring, 1, Len(timestring) - 1)
    IN IF ~known THEN [err |-> "RuntimeError", n |-> n]
       ELSE IF ~IsIntText(number) THEN [err |-> "InitializeError", n |-> n]
       ELSE [err |-> "", n |-> ParseInt(number) * multiplicator]

\* A plausible slip: the unknown suffix reported as the typed error
DurationParseTypedError(n, timestring) ==
  IF timestring = <<>> THEN [err |-> "", n |-> n]
  ELSE
    LET last == timestring[Len(timestring)]
        number == IF IsDigit(last) THEN timestring
                  ELSE SubSeq(timestring, 1, Len(timestring) - 1)
    IN IF ~(IsDigit(last) \/ last \in DividerLabels) \/ ~IsIntText(number)
         THEN [err |-> "InitializeError", n |-> n]
         ELSE [err |-> "",
               n |-> ParseInt(number) * (IF IsDigit(last) THEN 1 ELSE DividerOf(last))]

\* Duration.ParseFromHumanReadable as the model's actions call it
DurationParse(n, timestring) == DurationParseFromHumanReadable(n, timestring)

\* Duration(initializer) for a number: Duration.__init__
NewDuration(n) == Obj("Duration", <<>>, n, 0, FALSE)

\* Seconds a Duration is constructed from: multiples of every divider (both
\* signs and zero) and numbers next to them that no larger divider divides
DurationSeconds ==
  {k * DIVIDERS[i][2] + r : k \in (0 - MaxCoef)..MaxCoef,
                            i \in 1..Len(DIVIDERS), r \in {0, 1, 30}}

\* Texts handed to ParseFromHumanReadable
DurationTexts ==
  LET numbers == TextsOver({"0", "1"}, MaxDigits)
  IN {<<>>, <<"w">>, <<"x">>, <<"-">>, <<"1", ".", "5", "h">>, <<"x", "1">>,
      <<" ", "4", "5">>, <<"4", "5", " ">>, <<"-", "2", "d">>,
      <<"1", "w">>, <<"2", "d">>, <<"9", "0", "m">>, <<"4", "5", "s">>}
     \cup numbers
     \cup {Append(s, c) : s \in numbers, c \in {"w", "d", "h", "m", "s", "x", "W"}}

DurInit ==
  /\ store = [n \in {} |-> <<>>]
  /\ types = <<>>
  /\ log = <<>>
  /\ nreg = 0
  /\ \E n \in DurationSeconds : heap = <<NewDuration(n)>>
  /\ res = NoRes

\* d.ParseFromHumanReadable(timestring)
DurationParseFromHumanReadableCall(timestring) ==
  /\ LET out == DurationParse(heap[1].n, timestring)
     IN /\ heap' = [heap EXCEPT ![1].n = out.n]
        /\ res' = [NoRes EXCEPT !.tag = "parse", !.err = out.err,
                                !.arg = timestring,
                                !.old = IF out.err = "" THEN NoObj ELSE heap[1]]
  /\ UNCHANGED lbvars

\* str(d)
DurationStrCall ==
  /\ res' = [NoRes EXCEPT !.tag = "str", !.text = DurationStr(heap[1].n),
                          !.old = heap[1]]
  /\ UNCHANGED <<heap, store, types, log, nreg>>

DurNext ==
  \/ \E timestring \in DurationTexts :
       DurationParseFromHumanReadableCall(timestring)
  \/ DurationStrCall

SpecDur == DurInit /\ [][DurNext]_vars

\* The unit table as the documentation gives it
UnitSeconds(label) ==
  CASE label = "w" -> 604800
    [] label = "d" -> 86400
    [] label = "h" -> 3600
    [] label = "m" -> 60
    [] label = "s" -> 1

UnitLabels == {"w", "d", "h", "m", "s"}

(***************************************************************************)
(* C9: Duration human-readable parsing: an integer followed by a suffix in *)
(* {w,d,h,m,s} sets the payload to the integer times 604800, 86400, 3600,  *)
(* 60 or 1; an integer with no suffix sets it to that many seconds; a      *)
(* final character that is neither a digit nor one of the five suffixes    *)
(* raises RuntimeError (not InitializeError or DecodeError) and leaves the *)
(* payload unchanged.  "1w" -> 604800, "2d" -> 172800, "90m" -> 5400,      *)
(* "45s" -> 45.                                                            *)
(***************************************************************************)
C9_DurationParse ==
  (res.tag = "parse" /\ res.arg # <<>>) =>
    LET t == res.arg
        last == t[Len(t)]
        front == SubSeq(t, 1, Len(t) - 1)
    IN /\ (last \in UnitLabels /\ IsIntText(front)) =>
            (res.err = "" /\ heap[1].n = ParseInt(front) * UnitSeconds(last))
       /\ (IsDigit(last) /\ IsIntText(t)) =>
            (res.err = "" /\ heap[1].n = ParseInt(t))
       /\ (~IsDigit(last) /\ last \notin UnitLabels) =>
            (res.err = "RuntimeError" /\ heap[1] = res.old)
       /\ (t = <<"1", "w">> => heap[1].n = 604800)
       /\ (t = <<"2", "d">> => heap[1].n = 172800)
       /\ (t = <<"9", "0", "m">> => heap[1].n = 5400)
       /\ (t = <<"4", "5", "s">> => heap[1].n = 45)

\* "90m" was parsed by a Duration
C9_Witness ==
  /\ res.tag = "parse"
  /\ res.arg = <<"9", "0", "m">>
  /\ res.err = ""
  /\ heap[1].n = 5400

\* an unknown suffix was refused on a Duration holding a non-zero payload
C9_WitnessFault ==
  /\ res.tag = "parse"
  /\ res.arg = <<"1", "x">>
  /\ res.err = "RuntimeError"
  /\ heap[1].n = 3600

(***************************************************************************)
(* C10: Duration canonical text: for every integer payload p (positive,    *)
(* zero or negative) the text is "<p/u><label>" where u is the largest of  *)
(* w=604800, d=86400, h=3600, m=60, s=1 that divides p evenly; 3600 is     *)
(* "1h", and no smaller unit is chosen while a larger one divides p.       *)
(***************************************************************************)
C10_DurationCanonicalText ==
  res.tag = "str" =>
    LET p == heap[1].n
    IN /\ \E label \in UnitLabels :
            /\ p % UnitSeconds(label) = 0
            /\ \A bigger \in UnitLabels :
                 UnitSeconds(bigger) > UnitSeconds(label) =>
                   p % UnitSeconds(bigger) # 0
            /\ res.text = IntToStr(p \div UnitSeconds(label)) \o <<label>>
       /\ (p = 3600 => res.text = <<"1", "h">>)

\* a negative payload of whole hours, but not whole days, was formatted
C10_Witness ==
  /\ res.tag = "str"
  /\ heap[1].n = 0 - 7200
  /\ res.text = <<"-", "2", "h">>

(***************************************************************************)
(* Paths: utils.NormalizePath and utils.JoinPath (grr_response_core/lib/   *)
(* utils.py) and the str methods RDFURN uses.                              *)
(***************************************************************************)
\* The index of the first sep in s, 0 when there is none
RECURSIVE IndexFrom(_, _, _)
IndexFrom(s, sep, i) ==
  IF i > Len(s) THEN 0
  ELSE IF s[i] = sep THEN i
  ELSE IndexFrom(s, sep, i + 1)

\* s.split(sep, maxsplit); maxsplit < 0 splits at every sep
RECURSIVE SplitMax(_, _, _)
SplitMax(s, sep, maxsplit) ==
  LET i == IndexFrom(s, sep, 1)
  IN IF maxsplit = 0 \/ i = 0 THEN <<s>>
     ELSE <<SubSeq(s, 1, i - 1)>>
          \o SplitMax(SubSeq(s, i + 1, Len(s)), sep, maxsplit - 1)

\* s.split(sep)
SplitOn(s, sep) == SplitMax(s, sep, 0 - 1)

\* sep.join(pieces)
RECURSIVE Join(_, _)
Join(pieces, sep) ==
  IF pieces = <<>> THEN <<>>
  ELSE IF Len(pieces) = 1 THEN pieces[1]
  ELSE pieces[1] \o <<sep>> \o Join(Tail(pieces), sep)

\* filter(None, pieces): the non-empty pieces
RECURSIVE NonEmpty(_)
NonEmpty(pieces) ==
  IF pieces = <<>> THEN <<>>
  ELSE IF pieces[1] = <<>> THEN NonEmpty(Tail(pieces))
  ELSE <<pieces[1]>> \o NonEmpty(Tail(pieces))

\* NormalizePath's loop: empty and "." pieces are dropped, ".." drops the
\* piece before it (anchored at the top level)
RECURSIVE NormPieces(_, _)
NormPieces(pieces, kept) ==
  IF pieces = <<>> THEN kept
  ELSE IF pieces[1] = <<>> \/ pieces[1] = <<".">>
    THEN NormPieces(Tail(pieces), kept)
  ELSE IF pieces[1] = <<".", ".">>
    THEN NormPieces(Tail(pieces),
                    IF kept = <<>> THEN kept ELSE SubSeq(kept, 1, Len(kept) - 1))
  ELSE NormPieces(Tail(pieces), Append(kept, pieces[1]))

\* utils.NormalizePath(path)
NormalizePath(path) ==
  IF path = <<>> THEN <<"/">>
  ELSE <<"/">> \o Join(NormPieces(SplitOn(path, "/"), <<>>), "/")

\* s.replace("//", "/"): left to right, not overlapping
RECURSIVE ReplaceDoubleSlash(_)
ReplaceDoubleSlash(s) ==
  IF Len(s) < 2 THEN s
  ELSE IF s[1] = "/" /\ s[2] = "/"
    THEN <<"/">> \o ReplaceDoubleSlash(SubSeq(s, 3, Len(s)))
  ELSE <<s[1]>> \o ReplaceDoubleSlash(Tail(s))

\* s.rstrip("/")
RECURSIVE RStripSlash(_)
RStripSlash(s) ==
  IF s # <<>> /\ s[Len(s)] = "/" THEN RStripSlash(SubSeq(s, 1, Len(s) - 1))
  ELSE s

\* utils.JoinPath(stem, part)
JoinPath(stem, part) ==
  LET result == RStripSlash(ReplaceDoubleSlash(stem \o NormalizePath(part)))
  IN IF result = <<>> THEN <<"/">> ELSE result

\* posixpath.basename(path): what follows the last "/"
Basename(path) ==
  LET pieces == SplitOn(path, "/") IN pieces[Len(pieces)]

(***************************************************************************)
(* RDFURN                                                                  *)
(***************************************************************************)
AFF4 == <<"a", "f", "f", "4", ":">>

\* The payload RDFURN.ParseFromString(initializer) stores
URNParse(initializer) ==
  IF StartsWith(initializer, AFF4 \o <<"/">>)
    THEN NormalizePath(SubSeq(initializer, 6, Len(initializer)))
    ELSE NormalizePath(initializer)

\* RDFURN.__str__ / __unicode__, and so SerializeToString / SerializeToDataStore
URNStr(path) == AFF4 \o path

\* RDFURN.Split(count); count = 0 stands for None (both are falsy)
RECURSIVE PadTo(_, _)
PadTo(list, count) ==
  IF Len(list) < count THEN PadTo(Append(list, <<>>), count) ELSE list

URNSplit(path, count) ==
  IF count # 0 THEN PadTo(NonEmpty(SplitMax(path, "/", count)), count)
  ELSE NonEmpty(SplitOn(path, "/"))

\* RDFURN(): nothing assigns _string_urn, the class attribute "" shows
NewURN(age) == Obj("RDFURN", <<>>, 0, age, FALSE)

\* RDFURN(initializer, age) for a text initializer
NewURNFromText(initializer, age) ==
  Obj("RDFURN", URNParse(initializer), 0, age, FALSE)

\* cls(initializer, age) for an RDFURN initializer: the path is copied as is
NewURNFromURN(kind, initializer, age) ==
  Obj(kind, initializer.s, 0, age, FALSE)

\* self.ParseFromString(initializer), and ParseFromDatastore which calls it
URNParseFromString(o, initializer) == [o EXCEPT !.s = URNParse(initializer)]

\* A plausible slip: Update that leaves the dirty flag alone
URNUpdateClean(o, url, path) ==
  LET parsed == IF url # <<>> THEN URNParse(url) ELSE o.s
  IN [o EXCEPT !.s = IF path # <<>> THEN path ELSE parsed]

\* self.Update(url, path); an empty text stands for None (both are falsy)
URNUpdate(o, url, path) ==
  LET parsed == IF url # <<>> THEN URNParse(url) ELSE o.s
  IN [o EXCEPT !.s = IF path # <<>> THEN path ELSE parsed, !.dirty = TRUE]

\* A plausible slip: Add updating self in place of the copy
AddUpdatesSelf(o, path) == URNUpdate(o, <<>>, JoinPath(o.s, path))

\* The receiver after self.Add(path, age): Add works on a copy
ReceiverAfterAdd(o, path) == o

\* The instance self.Add(path, age) returns.  SessionID.Add goes through
\* RDFURN(self), so the result is an RDFURN for both classes.
URNAdd(o, path, age) ==
  URNUpdate(NewURNFromURN("RDFURN", o, age), <<>>, JoinPath(o.s, path))

(***************************************************************************)
(* SessionID                                                               *)
(***************************************************************************)
LowerChars ==
  {"a", "b", "c", "d", "e", "f", "g", "h", "i", "j", "k", "l", "m", "n",
  "o", "p", "q", "r", "s", "t", "u", "v", "w", "x", "y", "z"}

UpperChars ==
  {"A", "B", "C", "D", "E", "F", "G", "H", "I", "J", "K", "L", "M", "N",
  "O", "P", "Q", "R", "S", "T", "U", "V", "W", "X", "Y", "Z"}

\* [0-9a-zA-Z]
AlnumChars == DigitChars \cup LowerChars \cup UpperChars

AllIn(s, chars) == \A i \in 1..Len(s) : s[i] \in chars

\* SessionID.ValidateID: ^[-0-9a-zA-Z]+:[0-9a-zA-Z]+(:[0-9a-zA-Z]+)?$
\* matches id_str (no text of the model ends in a line break)
ValidateID(id_str) ==
  LET c == SplitOn(id_str, ":")
  IN /\ Len(c) \in {2, 3}
     /\ c[1] # <<>>
     /\ AllIn(c[1], AlnumChars \cup {"-"})
     /\ \A i \in 2..Len(c) : c[i] # <<>> /\ AllIn(c[i], AlnumChars)

HexSeq ==
  <<"0", "1", "2", "3", "4", "5", "6", "7", "8", "9", "A", "B", "C", "D", "E", "F">>

\* "%X" % n
RECURSIVE ToHex(_)
ToHex(n) ==
  IF n < 16 THEN <<HexSeq[n + 1]>>
  ELSE ToHex(n \div 16) \o <<HexSeq[(n % 16) + 1]>>

\* SessionID(age=age) with flow_name drawn from utils.PRNG.GetUInt32():
\* RDFURN("aff4:/flows").Add("F:%X" % flow_name), whose path is copied
NewSessionID(flow_name, age) ==
  NewURNFromURN("SessionID",
                URNAdd(NewURNFromText(AFF4 \o <<"/", "f", "l", "o", "w", "s">>, 0),
                       <<"F", ":">> \o ToHex(flow_name), age),
                age)

\* SessionID(initializer, age) for a text initializer: [err, o].  Validation
\* is behind isinstance(initializer, RDFURN), so a text is only parsed.
NewSessionIDFromText(initializer, age) ==
  [err |-> "", o |-> Obj("SessionID", URNParse(initializer), 0, age, FALSE)]

\* SessionID(initializer, age) for an RDFURN initializer: [err, o]
NewSessionIDFromURN(initializer, age) ==
  IF ValidateID(Basename(initializer.s))
    THEN [err |-> "", o |-> NewURNFromURN("SessionID", initializer, age)]
    ELSE [err |-> "InitializeError", o |-> NoObj]

\* self.Copy(age) = self.__class__(self, age=age): [err, o]
URNCopy(o, age) ==
  IF o.kind = "SessionID" THEN NewSessionIDFromURN(o, age)
  ELSE [err |-> "", o |-> NewURNFromURN("RDFURN", o, age)]

(***************************************************************************)
(* The path identifier's operations on one instance, heap[1].  A call that *)
(* returns a new instance puts it in heap[2]; the caller may go on with    *)
(* the returned instance (Rebind).                                         *)
(***************************************************************************)
\* time.time() * MICROSECONDS, and the ages callers pass
Times == {7, 9}

PathTexts ==
  {<<>>,
   <<"/">>,
   <<"a">>,
   <<"/", "a", "/", "b">>,
   <<"a", "/", "/", "b">>,
   <<"/", "a", "/", ".", ".", "/", "b">>,
   <<".", "/", "a">>,
   <<"a", "/">>,
   <<"a", "f", "f", "4", ":", "/", "a">>,
   <<"a", "f", "f", "4", ":">>,
   <<"a", "f", "f", "4", ":", "a">>,
   <<"a", "f", "f", "4", ":", "/", "a", "/", "/", "b", "/">>,
   <<"a", "/", "b", "/", "c">>,
   <<".", ".">>}

SessionTexts ==
  {<<"a", "f", "f", "4", ":", "/", "f", "l", "o", "w", "s", "/", "W", ":", "A", "B", "C", "D", "E", "F">>,
   <<"a", "f", "f", "4", ":", "/", "f", "l", "o", "w", "s", "/", "b", "a", "d", " ", "i", "d">>,
   <<"a", "f", "f", "4", ":", "/", "f", "l", "o", "w", "s", "/", "W", ":", "A", "-", "B">>,
   <<"a", "f", "f", "4", ":", "/", "f", "l", "o", "w", "s", "/", "D", "-", "u", ":", "1">>,
   <<"a", "f", "f", "4", ":", "/", "f", "l", "o", "w", "s", "/", "H", ":", "1", ":", "h", "u", "n", "t">>,
   <<"a", "f", "f", "4", ":", "/", "f", "l", "o", "w", "s", "/", "A", ":">>,
   <<"a", "f", "f", "4", ":", "/", "f", "l", "o", "w", "s", "/", "W">>,
   <<"W", ":", "1", ":", "2", ":", "3">>,
   <<"a", "f", "f", "4", ":", "/", "W", ":", "1", "/">>}

FlowNumbers == {0, 10, 255}

\* (url, path) of Update: either one alone, neither, or both
UpdateArgs ==
  {<<url, <<>>>> : url \in PathTexts}
  \cup {<<<<>>, path>> : path \in PathTexts}
  \cup {<<AFF4 \o <<"/", "a">>, path>> : path \in PathTexts}

EmptyStore == [n \in {} |-> <<>>]

URNInit ==
  /\ store = EmptyStore
  /\ types = <<>>
  /\ log = <<>>
  /\ nreg = 0
  /\ \/ \E age \in Times \cup {0} : heap = <<NewURN(age), NoObj>>
     \/ \E text \in PathTexts : heap = <<NewURNFromText(text, 0), NoObj>>
  /\ res = NoRes

URNParseFromStringCall(text) ==
  /\ heap' = <<URNParseFromString(heap[1], text), NoObj>>
  /\ res' = [NoRes EXCEPT !.tag = "parse", !.arg = text]
  /\ UNCHANGED lbvars

URNParseFromDatastoreCall(text) ==
  /\ heap' = <<URNParseFromString(heap[1], text), NoObj>>
  /\ res' = [NoRes EXCEPT !.tag = "parse_ds", !.arg = text]
  /\ UNCHANGED lbvars

URNUpdateCall(url, path) ==
  /\ heap' = <<URNUpdate(heap[1], url, path), NoObj>>
  /\ res' = [NoRes EXCEPT !.tag = "update", !.arg = path]
  /\ UNCHANGED lbvars

URNAddCall(path, age) ==
  /\ heap' = <<ReceiverAfterAdd(heap[1], path), URNAdd(heap[1], path, age)>>
  /\ res' = [NoRes EXCEPT !.tag = "add", !.ref = 2, !.arg = path, !.num = age]
  /\ UNCHANGED lbvars

\* self.Add(path) with a path that is no basestring
URNAddNonTextCall ==
  /\ heap' = <<heap[1], NoObj>>
  /\ res' = [NoRes EXCEPT !.tag = "add", !.err = "ValueError"]
  /\ UNCHANGED lbvars

URNCopyCall(age) ==
  /\ LET out == URNCopy(heap[1], age)
     IN /\ heap' = <<heap[1], out.o>>
        /\ res' = [NoRes EXCEPT !.tag = "copy", !.err = out.err,
                                !.ref = IF out.err = "" THEN 2 ELSE 0]
  /\ UNCHANGED lbvars

URNSplitCall(count) ==
  /\ heap' = <<heap[1], NoObj>>
  /\ res' = [NoRes EXCEPT !.tag = "split", !.num = count,
                          !.list = URNSplit(heap[1].s, count)]
  /\ UNCHANGED lbvars

\* SessionID(text)
SessionIDFromTextCall(text) ==
  /\ LET out == NewSessionIDFromText(text, 0)
     IN /\ heap' = <<heap[1], out.o>>
        /\ res' = [NoRes EXCEPT !.tag = "session", !.err = out.err, !.arg = text,
                                !.ref = IF out.err = "" THEN 2 ELSE 0]
  /\ UNCHANGED lbvars

\* SessionID(urn) for the RDFURN or SessionID in heap[1]
SessionIDFromURNCall ==
  /\ LET out == NewSessionIDFromURN(heap[1], 0)
     IN /\ heap' = <<heap[1], out.o>>
        /\ res' = [NoRes EXCEPT !.tag = "session", !.err = out.err, !.num = 1,
                                !.ref = IF out.err = "" THEN 2 ELSE 0]
  /\ UNCHANGED lbvars

\* SessionID()
SessionIDDefaultCall(flow_name) ==
  /\ heap' = <<heap[1], NewSessionID(flow_name, 0)>>
  /\ res' = [NoRes EXCEPT !.tag = "session_default", !.ref = 2]
  /\ UNCHANGED lbvars

\* urn = <the instance the last call returned>
Rebind ==
  /\ res.ref = 2
  /\ Len(heap[2].s) <= MaxPath
  /\ heap' = <<heap[2], NoObj>>
  /\ res' = NoRes
  /\ UNCHANGED lbvars

URNNext ==
  \/ \E text \in PathTexts : URNParseFromStringCall(text)
  \/ \E text \in PathTexts : URNParseFromDatastoreCall(text)
  \/ \E args \in UpdateArgs : URNUpdateCall(args[1], args[2])
  \/ \E path \in PathTexts, age \in Times : URNAddCall(path, age)
  \/ URNAddNonTextCall
  \/ \E age \in Times : URNCopyCall(age)
  \/ \E count \in 0..MaxCount : URNSplitCall(count)
  \/ \E text \in PathTexts \cup SessionTexts : SessionIDFromTextCall(text)
  \/ SessionIDFromURNCall
  \/ \E flow_name \in FlowNumbers : SessionIDDefaultCall(flow_name)
  \/ Rebind

SpecURN == URNInit /\ [][URNNext]_vars

\* The non-empty pieces between the "/" of a path
Segments(path) == NonEmpty(SplitOn(path, "/"))

\* An absolute path without empty, "." or ".." segments and without scheme
IsNormalAbsolute(path) ==
  /\ path # <<>>
  /\ path[1] = "/"
  /\ \/ path = <<"/">>
     \/ LET pieces == Tail(SplitOn(path, "/"))
        IN \A i \in 1..Len(pieces) :
             pieces[i] \notin {<<>>, <<".">>, <<".", ".">>}
  /\ ~StartsWith(path, AFF4)

IsPath(o) == o.kind \in {"RDFURN", "SessionID"}

(***************************************************************************)
(* C5: path payload invariant: in every state reachable by the path        *)
(* identifier's operations (default construction, construction from text   *)
(* or from another path identifier, ParseFromString, ParseFromDatastore,   *)
(* Add, Update(url), Update(path), Copy) the stored payload is a           *)
(* normalized absolute path with no empty segments and without the aff4:   *)
(* prefix.                                                                 *)
(***************************************************************************)
C5_PathPayloadNormalized ==
  \A r \in 1..2 : IsPath(heap[r]) => IsNormalAbsolute(heap[r].s)

\* The session grammar as documented: queue:flow or queue:flow:suffix, each
\* component one or more of [-0-9a-zA-Z]
DocumentedSessionGrammar(segment) ==
  LET c == SplitOn(segment, ":")
  IN /\ Len(c) \in {2, 3}
     /\ \A i \in 1..Len(c) : c[i] # <<>> /\ AllIn(c[i], AlnumChars \cup {"-"})

(***************************************************************************)
(* C6: constructing a Session Identifier from any initializer (text or     *)
(* path identifier) succeeds if and only if the last path segment matches  *)
(* queue:flow or queue:flow:suffix with each component from [-0-9a-zA-Z]+, *)
(* and otherwise fails with InitializeError.                               *)
(***************************************************************************)
C6_SessionGrammarChecked ==
  res.tag = "session" =>
    LET segment == IF res.num = 1 THEN Basename(heap[1].s)
                   ELSE Basename(URNParse(res.arg))
    IN /\ (res.err = "") <=> DocumentedSessionGrammar(segment)
       /\ res.err \in {"", "InitializeError"}

C8_SplitExactCount ==
  res.tag = "split" =>
    LET segments == Segments(heap[1].s)
    IN IF res.num > 0
         THEN /\ Len(res.list) = res.num
              /\ Len(segments) <= res.num => res.list = PadTo(segments, res.num)
         ELSE res.list = segments

(***************************************************************************)
(* ByteSize                                                                *)
(***************************************************************************)
AlphaLower ==
  <<"a", "b", "c", "d", "e", "f", "g", "h", "i", "j", "k", "l", "m", "n",
    "o", "p", "q", "r", "s", "t", "u", "v", "w", "x", "y", "z">>

AlphaUpper ==
  <<"A", "B", "C", "D", "E", "F", "G", "H", "I", "J", "K", "L", "M", "N",
    "O", "P", "Q", "R", "S", "T", "U", "V", "W", "X", "Y", "Z">>

\* str.lower()
Lower(s) ==
  [i \in 1..Len(s) |->
     IF \E j \in 1..26 : AlphaUpper[j] = s[i]
       THEN AlphaLower[CHOOSE j \in 1..26 : AlphaUpper[j] = s[i]]
       ELSE s[i]]

\* ByteSize.DIVIDERS.get(multiplier): 0 stands for None
ByteSizeDividerGet(multiplier) ==
  IF multiplier = <<>> THEN 1
  ELSE IF multiplier = <<"k">> THEN 1000
  ELSE IF multiplier = <<"m">> THEN 1000 * 1000
  ELSE IF multiplier = <<"g">> THEN 1000 * 1000 * 1000
  ELSE IF multiplier = <<"k", "i">> THEN 1024
  ELSE IF multiplier = <<"m", "i">> THEN 1024 * 1024
  ELSE IF multiplier = <<"g", "i">> THEN 1024 * 1024 * 1024
  ELSE 0

\* The number of leading characters of s that are in chars (a greedy
\* character-class repetition of the regular expression)
RECURSIVE SpanLen(_, _)
SpanLen(s, chars) ==
  IF s # <<>> /\ s[1] \in chars THEN 1 + SpanLen(Tail(s), chars) ELSE 0

\* ByteSize.REGEX.match(text): ^([0-9.]+)([kmgi]*)b?$ .  The three character
\* classes are disjoint, so the greedy match is the only one.
ByteSizeRegexMatch(text) ==
  LET n1 == SpanLen(text, DigitChars \cup {"."})
      rest1 == SubSeq(text, n1 + 1, Len(text))
      n2 == SpanLen(rest1, {"k", "m", "g", "i"})
      rest2 == SubSeq(rest1, n2 + 1, Len(rest1))
  IN [ok |-> n1 > 0 /\ rest2 \in {<<>>, <<"b">>},
      group1 |-> SubSeq(text, 1, n1),
      group2 |-> SubSeq(rest1, 1, n2)]

\* 10 ** n
RECURSIVE Pow10(_)
Pow10(n) == IF n = 0 THEN 1 ELSE 10 * Pow10(n - 1)

\* float(value) succeeds on a text of digits and dots: exactly one dot and at
\* least one digit
IsFloatText(value) ==
  /\ Cardinality({i \in 1..Len(value) : value[i] = "."}) = 1
  /\ Len(value) > 1

\* int(float(value) * multiplier) for such a text: the whole part times the
\* multiplier plus the truncated share of the fraction digits.  (For the
\* coefficients of up to four characters the parsed texts carry, the double
\* product truncates to this same integer.)
FloatTimesTruncated(value, multiplier) ==
  LET dot == CHOOSE i \in 1..Len(value) : value[i] = "."
      whole == DigitsToNat(SubSeq(value, 1, dot - 1))
      digits == SubSeq(value, dot + 1, Len(value))
      scale == Pow10(Len(digits))
      frac == DigitsToNat(digits)
  IN whole * multiplier + frac * (multiplier \div scale)
       + (frac * (multiplier % scale)) \div scale

\* ByteSize.ParseFromHumanReadable(string) on a payload n: [err, n], the
\* exception raised ("" when none) and the payload afterwards
ByteSizeParseFromHumanReadable(n, string) ==
  IF string = <<>> THEN [err |-> "", n |-> n]
  ELSE LET match == ByteSizeRegexMatch(Lower(Strip(string)))
           multiplier == ByteSizeDividerGet(match.group2)
           value == match.group1
       IN IF ~match.ok THEN [err |-> "DecodeError", n |-> n]
          ELSE IF multiplier = 0 THEN [err |-> "DecodeError", n |-> n]
          ELSE IF \E i \in 1..Len(value) : value[i] = "."
            THEN \* float(value) raises ValueError, which nothing catches
                 IF IsFloatText(value)
                   THEN [err |-> "", n |-> FloatTimesTruncated(value, multiplier)]
                   ELSE [err |-> "ValueError", n |-> n]
            ELSE [err |-> "", n |-> DigitsToNat(value) * multiplier]

(***************************************************************************)
(* The serialization triad of every kind.                                  *)
(***************************************************************************)
IntKinds ==
  {"RDFInteger", "RDFBool", "RDFDatetime", "RDFDatetimeSeconds", "Duration",
   "ByteSize"}

PathKinds == {"RDFURN", "SessionID"}

\* unicode.encode("utf-8"): "U+E9" stands for a character outside ASCII,
\* whose encoding is the two bytes xC3 xA9
RECURSIVE Utf8Encode(_)
Utf8Encode(text) ==
  IF text = <<>> THEN <<>>
  ELSE (IF text[1] = "U+E9" THEN <<"xC3", "xA9">> ELSE <<text[1]>>)
       \o Utf8Encode(Tail(text))

\* bytes.decode("utf-8") succeeds
RECURSIVE IsUtf8(_)
IsUtf8(bytes) ==
  IF bytes = <<>> THEN TRUE
  ELSE IF bytes[1] = "xC3"
    THEN Len(bytes) >= 2 /\ bytes[2] = "xA9" /\ IsUtf8(SubSeq(bytes, 3, Len(bytes)))
  ELSE bytes[1] # "xA9" /\ IsUtf8(Tail(bytes))

\* bytes.decode("utf-8"), for bytes on which it succeeds
RECURSIVE Utf8Decode(_)
Utf8Decode(bytes) ==
  IF bytes = <<>> THEN <<>>
  ELSE IF bytes[1] = "xC3"
    THEN <<"U+E9">> \o Utf8Decode(SubSeq(bytes, 3, Len(bytes)))
  ELSE <<bytes[1]>> \o Utf8Decode(Tail(bytes))

\* cls(): an instance constructed without initializer; age is RDFDatetime(0).
\* SessionID() draws flow_name from the process-wide PRNG.
NewValue(kind, flow_name) ==
  IF kind = "SessionID" THEN NewSessionID(flow_name, 0)
  ELSE Obj(kind, <<>>, 0, 0, FALSE)

\* self.SerializeToString()
SerializeToString(o) ==
  IF o.kind = "RDFBytes" THEN o.s
  ELSE IF o.kind = "RDFString" THEN Utf8Encode(o.s)
  ELSE IF o.kind = "Duration" THEN DurationStr(o.n)
  ELSE IF o.kind \in IntKinds THEN IntToStr(o.n)
  ELSE URNStr(o.s)

\* self.ParseFromString(string): [err, o], the exception raised ("" when
\* none) and the instance afterwards
ParseFromString(o, string) ==
  IF o.kind = "RDFBytes" THEN [err |-> "", o |-> [o EXCEPT !.s = string]]
  ELSE IF o.kind = "RDFString"
    THEN IF IsUtf8(string)
           THEN [err |-> "", o |-> [o EXCEPT !.s = Utf8Decode(string)]]
           ELSE [err |-> "UnicodeDecodeError", o |-> o]
  ELSE IF o.kind = "Duration"
    THEN LET out == DurationParse(o.n, string)
         IN [err |-> out.err, o |-> [o EXCEPT !.n = out.n]]
  ELSE IF o.kind \in IntKinds
    THEN \* self._value = 0 comes first; int() raises ValueError, and only
         \* TypeError is turned into DecodeError
         IF string = <<>> THEN [err |-> "", o |-> [o EXCEPT !.n = 0]]
         ELSE IF IsIntText(string)
           THEN [err |-> "", o |-> [o EXCEPT !.n = ParseInt(string)]]
           ELSE [err |-> "ValueError", o |-> [o EXCEPT !.n = 0]]
  ELSE [err |-> "", o |-> URNParseFromString(o, string)]

\* cls.data_store_type as the Python type SerializeToDataStore emits
DataStoreScalarType(kind) ==
  IF kind = "RDFBytes" THEN "bytes"
  ELSE IF kind \in IntKinds THEN "int"
  ELSE "unicode"

Scalar(type, s, n) == [t |-> type, s |-> s, n |-> n]

\* self.SerializeToDataStore()
SerializeToDataStore(o) ==
  IF o.kind = "RDFBytes" THEN Scalar("bytes", o.s, 0)
  ELSE IF o.kind = "RDFString" THEN Scalar("unicode", o.s, 0)
  ELSE IF o.kind \in IntKinds THEN Scalar("int", <<>>, o.n)
  ELSE Scalar("unicode", URNStr(o.s), 0)

\* utils.AssertType(value, expected_type) raises TypeError unless value is an
\* instance of the type
AssertType(value, expected_type) ==
  IF value.t = expected_type THEN "" ELSE "TypeError"

\* RDFInteger.__init__(initializer=value), which RDFBool inherits: a number is
\* stored, anything else goes through int(initializer)
NewIntegerFrom(kind, value) ==
  IF value.t = "int" THEN [err |-> "", o |-> Obj(kind, <<>>, value.n, 0, FALSE)]
  ELSE IF IsIntText(value.s)
    THEN [err |-> "", o |-> Obj(kind, <<>>, ParseInt(value.s), 0, FALSE)]
    ELSE [err |-> "ValueError", o |-> NoObj]

\* RDFDatetime.__init__(initializer=value)
NewDatetimeFrom(kind, value) ==
  IF value.t = "int" THEN [err |-> "", o |-> Obj(kind, <<>>, value.n, 0, FALSE)]
  ELSE [err |-> "InitializeError", o |-> NoObj]

\* Duration.__init__ and ByteSize.__init__ (initializer=value): a basestring
\* is parsed as human-readable text
NewFromHumanReadable(kind, value) ==
  IF value.t = "int" THEN [err |-> "", o |-> Obj(kind, <<>>, value.n, 0, FALSE)]
  ELSE LET out == IF kind = "Duration" THEN DurationParse(0, value.s)
                  ELSE ByteSizeParseFromHumanReadable(0, value.s)
       IN [err |-> out.err,
           o |-> IF out.err = "" THEN Obj(kind, <<>>, out.n, 0, FALSE) ELSE NoObj]

\* cls.FromDatastoreValue(value): [err, o].  The integer kinds go through
\* cls(initializer=value); the others through cls() and ParseFromDatastore,
\* which asserts the scalar's type.
FromDatastoreValue(kind, value, flow_name) ==
  IF kind \in {"RDFInteger", "RDFBool"} THEN NewIntegerFrom(kind, value)
  ELSE IF kind \in {"RDFDatetime", "RDFDatetimeSeconds"}
    THEN NewDatetimeFrom(kind, value)
  ELSE IF kind \in {"Duration", "ByteSize"} THEN NewFromHumanReadable(kind, value)
  ELSE IF AssertType(value, DataStoreScalarType(kind)) # ""
    THEN [err |-> "TypeError", o |-> NoObj]
  ELSE IF kind \in PathKinds
    THEN [err |-> "", o |-> URNParseFromString(NewValue(kind, flow_name), value.s)]
  ELSE [err |-> "", o |-> [NewValue(kind, flow_name) EXCEPT !.s = value.s]]

\* A plausible slip: Copy handing back the receiver
CopyReturnsSelf(self) == self

\* The reference Copy returns: a new instance, never the receiver's
CopyReturnsNew(self) == 3 - self

\* self.Copy(): RDFValue.Copy builds cls() and parses the wire form into it,
\* RDFURN.Copy(age) is cls(self, age=age): [err, o]
Copy(o, age, flow_name) ==
  IF o.kind \in PathKinds THEN URNCopy(o, age)
  ELSE ParseFromString(NewValue(o.kind, flow_name), SerializeToString(o))

\* self += other (RDFInteger, RDFDatetime and Duration __iadd__)
IAdd(o, other) ==
  IF o.kind = "RDFDatetime" THEN [o EXCEPT !.n = o.n + other * 1000000]
  ELSE [o EXCEPT !.n = o.n + other]

(***************************************************************************)
(* One value v of any kind in heap[1]; the round trips and Copy put their  *)
(* result in heap[2], and the caller then changes the copy in place.       *)
(***************************************************************************)
ByteTexts == {<<>>, <<"a">>, <<"a", "b">>, <<"xC3", "xA9">>, <<"xC3">>, <<"1">>}

UnicodeTexts == {<<>>, <<"a">>, <<"U+E9">>, <<"a", "U+E9", "b">>}

IntValues == (0 - MaxInt)..MaxInt

DatetimeValues == {0, 1, 999999, 1000000, 1999999, 0 - 5}

ByteSizeValues == {0, 1, 1024, 1500}

ValueSessionTexts ==
  {AFF4 \o <<"/", "f", "/", "W", ":", "A">>, <<"/", "b", " ", "i">>}

\* The instances the constructors build, with the default age
Constructible ==
  {Obj("RDFBytes", b, 0, 0, FALSE) : b \in ByteTexts}
  \cup {Obj("RDFString", u, 0, 0, FALSE) : u \in UnicodeTexts}
  \cup {Obj("RDFInteger", <<>>, n, 0, FALSE) : n \in IntValues}
  \cup {Obj("RDFBool", <<>>, n, 0, FALSE) : n \in {0, 1}}
  \cup {Obj(k, <<>>, n, 0, FALSE) :
          k \in {"RDFDatetime", "RDFDatetimeSeconds"}, n \in DatetimeValues}
  \cup {NewDuration(n) : n \in DurationSeconds}
  \cup {Obj("ByteSize", <<>>, n, 0, FALSE) : n \in ByteSizeValues}
  \cup {NewURN(0)}
  \cup {NewURNFromText(text, 0) : text \in PathTexts}
  \cup {NewSessionID(f, 0) : f \in FlowNumbers}
  \cup {NewSessionIDFromText(text, 0).o : text \in ValueSessionTexts}

ValInit ==
  /\ store = EmptyStore
  /\ types = <<>>
  /\ log = <<>>
  /\ nreg = 0
  /\ \E v \in Constructible, age \in Times \cup {0} :
       heap = <<[v EXCEPT !.age = age], NoObj>>
  /\ res = NoRes

\* fresh = cls(); fresh.ParseFromString(v.SerializeToString())
WireRoundTripCall(flow_name) ==
  /\ LET out == ParseFromString(NewValue(heap[1].kind, flow_name),
                                SerializeToString(heap[1]))
     IN /\ heap' = <<heap[1], out.o>>
        /\ res' = [NoRes EXCEPT !.tag = "wire", !.err = out.err, !.ref = 2]
  /\ UNCHANGED lbvars

\* cls.FromDatastoreValue(v.SerializeToDataStore())
DatastoreRoundTripCall(flow_name) ==
  /\ LET out == FromDatastoreValue(heap[1].kind, SerializeToDataStore(heap[1]),
                                   flow_name)
     IN /\ heap' = <<heap[1], out.o>>
        /\ res' = [NoRes EXCEPT !.tag = "datastore", !.err = out.err, !.ref = 2]
  /\ UNCHANGED lbvars

\* c = v.Copy(), or v.Copy(age) for a path identifier
CopyCall(age, flow_name) ==
  /\ LET out == Copy(heap[1], age, flow_name)
         ref == CopyReturnsNew(1)
     IN /\ heap' = [heap EXCEPT ![ref] = IF out.err = "" THEN out.o ELSE NoObj]
        /\ res' = [NoRes EXCEPT !.tag = "copy", !.err = out.err, !.num = age,
                                !.ref = IF out.err = "" THEN ref ELSE 0]
  /\ UNCHANGED lbvars

\* c += other on the copy of an integer kind
CopyIAddCall(other) ==
  /\ res.tag = "copy"
  /\ res.ref # 0
  /\ heap[res.ref].kind \in IntKinds
  /\ heap' = [heap EXCEPT ![res.ref] = IAdd(heap[res.ref], other)]
  /\ res' = [res EXCEPT !.tag = "changed"]
  /\ UNCHANGED lbvars

\* c.Update(url, path) on the copy of a path identifier
CopyUpdateCall(url, path) ==
  /\ res.tag = "copy"
  /\ res.ref # 0
  /\ heap[res.ref].kind \in PathKinds
  /\ heap' = [heap EXCEPT ![res.ref] = URNUpdate(heap[res.ref], url, path)]
  /\ res' = [res EXCEPT !.tag = "changed"]
  /\ UNCHANGED lbvars

\* c.ParseFromString(string) on the copy of a bytes or text kind
CopyParseCall(string) ==
  /\ res.tag = "copy"
  /\ res.ref # 0
  /\ heap[res.ref].kind \in {"RDFBytes", "RDFString"}
  /\ heap' = [heap EXCEPT ![res.ref] = ParseFromString(heap[res.ref], string).o]
  /\ res' = [res EXCEPT !.tag = "changed"]
  /\ UNCHANGED lbvars

ValNext ==
  \/ \E flow_name \in FlowNumbers : WireRoundTripCall(flow_name)
  \/ \E flow_name \in FlowNumbers : DatastoreRoundTripCall(flow_name)
  \/ \E age \in Times, flow_name \in FlowNumbers : CopyCall(age, flow_name)
  \/ \E other \in {0 - 1, 1, 5} : CopyIAddCall(other)
  \/ \E args \in UpdateArgs : CopyUpdateCall(args[1], args[2])
  \/ \E string \in ByteTexts : CopyParseCall(string)

SpecVal == ValInit /\ [][ValNext]_vars

\* Two instances of one kind are equal when their payloads are: __eq__
SamePayload(a, b) == a.kind = b.kind /\ a.s = b.s /\ a.n = b.n

(***************************************************************************)
(* C2: wire round trip: for every kind and every constructible value v of  *)
(* that kind, including the default-constructed one, parsing               *)
(* SerializeToString(v) with ParseFromString into a fresh instance of the  *)
(* same kind yields a value equal to v.                                    *)
(***************************************************************************)
C2_WireRoundTrip ==
  res.tag = "wire" => (res.err = "" /\ SamePayload(heap[2], heap[1]))

(***************************************************************************)
(* C3: datastore round trip: for every kind and every constructible value  *)
(* v, FromDatastoreValue(SerializeToDataStore(v)) succeeds and returns a   *)
(* value of the same kind that is equal to v.                              *)
(***************************************************************************)
C3_DatastoreRoundTrip ==
  res.tag = "datastore" => (res.err = "" /\ SamePayload(heap[2], heap[1]))

MaxCoefLen == 2

ByteSizeSuffixes ==
  {<<>>, <<"b">>, <<"k">>, <<"k", "b">>, <<"k", "i">>, <<"m", "i">>,
   <<"k", "k">>, <<"x">>}

\* The text denotes a payload the checker's integers hold
Representable(text) ==
  LET MaxWord == 2147483647
      match == ByteSizeRegexMatch(Lower(Strip(text)))
      multiplier == ByteSizeDividerGet(match.group2)
      whole == DigitsToNat(SubSeq(match.group1, 1,
                                  SpanLen(match.group1, DigitChars)))
  IN (match.ok /\ multiplier > 0) =>
       whole <= (MaxWord - multiplier + 1) \div multiplier

\* Texts handed to ParseFromHumanReadable
ByteSizeTexts ==
  {text \in
     {c \o m : c \in TextsOver({"1", "."}, MaxCoefLen), m \in ByteSizeSuffixes}
     \cup {<<>>, <<" ">>, <<"b">>, <<"1", "K", "i", "b">>, <<"1", "k", "b">>,
           <<"1", ".", "5", "G", "i">>, <<"1", "x", "b">>, <<"i", "k">>,
           <<"k", "k">>, <<" ", "2", "M", " ">>, <<"1", "g">>, <<"-", "1", "k">>,
           <<"1", "k", "B", "b">>} :
     Representable(text)}

BSInit ==
  /\ store = EmptyStore
  /\ types = <<>>
  /\ log = <<>>
  /\ nreg = 0
  /\ \E n \in ByteSizeValues : heap = <<Obj("ByteSize", <<>>, n, 0, FALSE)>>
  /\ res = NoRes

\* b.ParseFromHumanReadable(string)
ByteSizeParseFromHumanReadableCall(string) ==
  /\ LET out == ByteSizeParseFromHumanReadable(heap[1].n, string)
     IN /\ heap' = [heap EXCEPT ![1].n = out.n]
        /\ res' = [NoRes EXCEPT !.tag = "parse", !.err = out.err,
                                !.arg = string,
                                !.old = IF out.err = "" THEN NoObj ELSE heap[1]]
  /\ UNCHANGED lbvars

\* b = ByteSize(string): the name is bound only when the constructor returns
NewByteSizeCall(string) ==
  /\ LET out == NewFromHumanReadable("ByteSize", Scalar("unicode", string, 0))
     IN /\ heap' = IF out.err = "" THEN <<out.o>> ELSE heap
        /\ res' = [NoRes EXCEPT !.tag = "new", !.err = out.err, !.arg = string]
  /\ UNCHANGED lbvars

BSNext ==
  \/ \E string \in ByteSizeTexts : ByteSizeParseFromHumanReadableCall(string)
  \/ \E string \in ByteSizeTexts : NewByteSizeCall(string)

SpecBS == BSInit /\ [][BSNext]_vars

\* The multiplier letters the documentation lists, with their factors
DocumentedMultipliers ==
  {<<<<>>, 1>>, <<<<"k">>, 1000>>, <<<<"m">>, 1000000>>,
   <<<<"g">>, 1000000000>>, <<<<"k", "i">>, 1024>>,
   <<<<"m", "i">>, 1048576>>, <<<<"g", "i">>, 1073741824>>}

\* The ways a trimmed, lower-cased text reads as coefficient, multiplier
\* letters and an optional b
DocumentedReadings(text) ==
  {<<c, m>> \in (1..Len(text)) \X DocumentedMultipliers :
     /\ \A i \in 1..c : text[i] \in DigitChars \cup {"."}
     /\ SubSeq(text, c + 1, Len(text)) \in {m[1], m[1] \o <<"b">>}}

(***************************************************************************)
(* C11: ParseFromHumanReadable of a non-empty text that, trimmed and       *)
(* lower-cased, is a coefficient of digits and dots, one of the multiplier *)
(* letters "", k, m, g, ki, mi, gi and an optional b, succeeds and sets    *)
(* the payload to the coefficient times the multiplier's factor, truncated *)
(* to an integer; every other non-empty text fails with DecodeError and    *)
(* leaves the payload as it was.                                           *)
(***************************************************************************)
C11_ByteSizeParse ==
  (res.tag = "parse" /\ res.arg # <<>>) =>
    LET text == Lower(Strip(res.arg))
        readings == DocumentedReadings(text)
    IN IF readings # {}
         THEN /\ res.err = ""
              /\ \A r \in readings :
                   LET value == SubSeq(text, 1, r[1])
                   IN IF IsFloatText(value)
                        THEN heap[1].n = FloatTimesTruncated(value, r[2][2])
                        ELSE AllIn(value, DigitChars) =>
                               heap[1].n = DigitsToNat(value) * r[2][2]
         ELSE /\ res.err = "DecodeError"
              /\ heap[1].n = res.old.n

(***************************************************************************)
(* RDFDatetime and RDFDatetimeSeconds                                      *)
(***************************************************************************)
MICROSECONDS == 1000000

\* cls.converter
Converter(kind) == IF kind = "RDFDatetimeSeconds" THEN 1 ELSE MICROSECONDS

\* isinstance(o, RDFDatetime)
IsInstant(o) == o.kind \in {"RDFDatetime", "RDFDatetimeSeconds"}

\* isinstance(other, (int, long, float, Duration)); a Python int is an
\* instance of kind "int"
IsSecondsOperand(other) == other.kind \in {"int", "Duration"}

PyInt(n) == Obj("int", <<>>, n, 0, FALSE)

\* a // b of Python, which rounds towards minus infinity
PyFloorDiv(a, b) == IF b > 0 THEN a \div b ELSE (0 - a) \div (0 - b)

\* A plausible slip: the seconds rounded towards zero
AsSecondsTruncated(o) ==
  IF o.n >= 0 THEN o.n \div Converter(o.kind)
  ELSE 0 - ((0 - o.n) \div Converter(o.kind))

\* self.AsSecondsSinceEpoch()
AsSecondsSinceEpoch(o) == PyFloorDiv(o.n, Converter(o.kind))

\* A plausible slip: the seconds stored without the class's converter
FromSecondsRaw(kind, value) == Obj(kind, <<>>, value, 0, FALSE)

\* cls.FromSecondsSinceEpoch(value)
FromSecondsSinceEpoch(kind, value) ==
  Obj(kind, <<>>, value * Converter(kind), 0, FALSE)

\* self + other: [err, o].  An operand that is neither a number nor a
\* Duration gets NotImplemented, which Python turns into TypeError when the
\* operand has no reflected method.
DatetimeAdd(self, other) ==
  IF IsSecondsOperand(other)
    THEN [err |-> "",
          o |-> Obj(self.kind, <<>>, self.n + other.n * Converter(self.kind),
                    0, FALSE)]
    ELSE [err |-> "TypeError", o |-> NoObj]

\* A plausible slip: the product rescaled like a sum
DatetimeMulRescaled(self, other) ==
  IF IsSecondsOperand(other)
    THEN [err |-> "",
          o |-> Obj(self.kind, <<>>, self.n * other.n * Converter(self.kind),
                    0, FALSE)]
    ELSE [err |-> "TypeError", o |-> NoObj]

\* self * other
DatetimeMul(self, other) ==
  IF IsSecondsOperand(other)
    THEN [err |-> "", o |-> Obj(self.kind, <<>>, self.n * other.n, 0, FALSE)]
    ELSE [err |-> "TypeError", o |-> NoObj]

\* self - other: a number or Duration gives an instant, an instant gives the
\* Duration between the two in whole seconds
DatetimeSub(self, other) ==
  IF IsSecondsOperand(other)
    THEN [err |-> "",
          o |-> Obj(self.kind, <<>>, self.n - other.n * Converter(self.kind),
                    0, FALSE)]
  ELSE IF IsInstant(other)
    THEN [err |-> "",
          o |-> NewDuration(AsSecondsSinceEpoch(self) - AsSecondsSinceEpoch(other))]
  ELSE [err |-> "TypeError", o |-> NoObj]

\* The interpolation progress t is a float; the model takes it in quarters,
\* t = k / LerpDenominator
LerpDenominator == 4

\* A plausible slip: rounding down
RoundDown(num, den) == PyFloorDiv(num, den)

\* round(num / den) of Python 2: to the nearest integer, a half away from zero
Round(num, den) ==
  IF num >= 0 THEN (2 * num + den) \div (2 * den)
  ELSE 0 - ((2 * (0 - num) + den) \div (2 * den))

\* RDFDatetime.Lerp(t, start_time, end_time) with t = k / LerpDenominator
Lerp(k, start_time, end_time) ==
  IF ~(IsInstant(start_time) /\ IsInstant(end_time))
    THEN [err |-> "TypeError", o |-> NoObj]
  ELSE IF ~(0 <= k /\ k <= LerpDenominator)
    THEN [err |-> "ValueError", o |-> NoObj]
  ELSE [err |-> "",
        o |-> Obj("RDFDatetime", <<>>,
                  Round((LerpDenominator - k) * start_time.n + k * end_time.n,
                        LerpDenominator), 0, FALSE)]

\* self.Floor(interval)
Floor(self, interval) ==
  IF interval.kind # "Duration" THEN [err |-> "TypeError", o |-> NoObj]
  ELSE IF interval.n = 0 THEN [err |-> "ZeroDivisionError", o |-> NoObj]
  ELSE [err |-> "",
        o |-> FromSecondsSinceEpoch(
                self.kind,
                PyFloorDiv(AsSecondsSinceEpoch(self), interval.n) * interval.n)]

(***************************************************************************)
(* An instant x in heap[1]; arithmetic, Lerp and Floor put the instance    *)
(* they return in heap[2].  res.old is x as it was before the call and     *)
(* res.list holds the other operands.                                      *)
(***************************************************************************)
MaxOperand == 2

\* Raw payloads of the microsecond kind and of the seconds kind
MicrosecondPayloads ==
  {0 - 5, 0, 1000000, 1900000, 2000000, 5000000, 7300000, 10000000, 20000000}

SecondPayloads == {0 - 5, 0, 1, 5, 7, 20}

Instants ==
  {Obj("RDFDatetime", <<>>, n, 0, FALSE) : n \in MicrosecondPayloads}
  \cup {Obj("RDFDatetimeSeconds", <<>>, n, 0, FALSE) : n \in SecondPayloads}

OperandNumbers == ((0 - MaxOperand)..MaxOperand) \cup {5}

\* Numbers and Durations taken as seconds
SecondsOperands ==
  {PyInt(n) : n \in OperandNumbers} \cup {NewDuration(n) : n \in OperandNumbers}

\* An operand the arithmetic does not implement
NonNumbers == {Obj("RDFString", <<"a">>, 0, 0, FALSE)}

\* Endpoints handed to Lerp besides the instant itself
LerpEndpoints ==
  {Obj("RDFDatetime", <<>>, n, 0, FALSE) : n \in MicrosecondPayloads}
  \cup {Obj("RDFDatetimeSeconds", <<>>, 7, 0, FALSE), NewDuration(1), PyInt(0)}

DTInit ==
  /\ store = EmptyStore
  /\ types = <<>>
  /\ log = <<>>
  /\ nreg = 0
  /\ \E x \in Instants : heap = <<x, NoObj>>
  /\ res = NoRes

\* What a call on heap[1] left behind; out is the [err, o] the method gave
Returned(tag, out, operands, num) ==
  /\ heap' = <<heap[1], out.o>>
  /\ res' = [NoRes EXCEPT !.tag = tag, !.err = out.err, !.list = operands,
                          !.num = num, !.old = heap[1],
                          !.ref = IF out.err = "" THEN 2 ELSE 0]
  /\ UNCHANGED lbvars

\* x + other
DatetimeAddCall(other) ==
  Returned("add", DatetimeAdd(heap[1], other), <<other>>, 0)

\* x - other
DatetimeSubCall(other) ==
  Returned("sub", DatetimeSub(heap[1], other), <<other>>, 0)

\* x * other
DatetimeMulCall(other) ==
  Returned("mul", DatetimeMul(heap[1], other), <<other>>, 0)

\* RDFDatetime.Lerp(k / LerpDenominator, start_time, end_time)
LerpCall(k, start_time, end_time) ==
  Returned("lerp", Lerp(k, start_time, end_time), <<start_time, end_time>>, k)

\* x.Floor(interval)
FloorCall(interval) ==
  Returned("floor", Floor(heap[1], interval), <<interval>>, 0)

DTNext ==
  \/ \E other \in SecondsOperands \cup NonNumbers : DatetimeAddCall(other)
  \/ \E other \in SecondsOperands \cup Instants \cup NonNumbers :
       DatetimeSubCall(other)
  \/ \E other \in SecondsOperands \cup NonNumbers : DatetimeMulCall(other)
  \/ \E k \in (0 - 1)..(LerpDenominator + 1),
        start_time \in {heap[1], PyInt(0)}, end_time \in LerpEndpoints :
       LerpCall(k, start_time, end_time)
  \/ \E interval \in {NewDuration(n) : n \in OperandNumbers} \cup {PyInt(2)} :
       FloorCall(interval)

SpecDT == DTInit /\ [][DTNext]_vars

\* The unit factor of an instant's kind
UnitFactor(kind) == IF kind = "RDFDatetime" THEN 1000000 ELSE 1

\* floor(payload / unit factor)
WholeSeconds(o) ==
  LET c == UnitFactor(o.kind)
  IN IF o.n >= 0 THEN o.n \div c ELSE 0 - ((c - 1 - o.n) \div c)

C13_InstantDifferenceWholeSeconds ==
  (res.tag = "sub" /\ res.list[1].kind \in {"RDFDatetime", "RDFDatetimeSeconds"}) =>
    /\ res.err = ""
    /\ heap[2].kind = "Duration"
    /\ heap[2].n = WholeSeconds(res.old) - WholeSeconds(res.list[1])
    /\ heap[1] = res.old

\* 2.0s - 1.9s is a Duration of 1 second
C13_Witness ==
  /\ res.tag = "sub"
  /\ res.old = Obj("RDFDatetime", <<>>, 2000000, 0, FALSE)
  /\ res.list = <<Obj("RDFDatetime", <<>>, 1900000, 0, FALSE)>>
  /\ heap[2] = NewDuration(1)

(***************************************************************************)
(* C14: Lerp(t, start, end) fails with TypeError when an endpoint is not   *)
(* an instant, whatever t is; otherwise with ValueError when t is outside  *)
(* [0, 1]; otherwise it returns an instant whose payload is the integer    *)
(* nearest to (1-t)*start + t*end on the raw payloads, which is start for  *)
(* t = 0 and end for t = 1.                                                *)
(***************************************************************************)
C14_LerpChecksAndRounds ==
  res.tag = "lerp" =>
    LET start == res.list[1]
        end == res.list[2]
        k == res.num
        exact == (LerpDenominator - k) * start.n + k * end.n
        off == LerpDenominator * heap[2].n - exact
    IN IF ~(start.kind \in {"RDFDatetime", "RDFDatetimeSeconds"}
            /\ end.kind \in {"RDFDatetime", "RDFDatetimeSeconds"})
         THEN res.err = "TypeError"
         ELSE IF k < 0 \/ k > LerpDenominator
           THEN res.err = "ValueError"
           ELSE /\ res.err = ""
                /\ heap[2].kind \in {"RDFDatetime", "RDFDatetimeSeconds"}
                /\ 2 * off <= LerpDenominator
                /\ 2 * (0 - off) <= LerpDenominator
                /\ k = 0 => heap[2].n = start.n
                /\ k = LerpDenominator => heap[2].n = end.n

\* half way between 0 and 10 seconds is 5 seconds
C14_Witness ==
  /\ res.tag = "lerp"
  /\ res.num * 2 = LerpDenominator
  /\ res.list = <<Obj("RDFDatetime", <<>>, 0, 0, FALSE),
                  Obj("RDFDatetime", <<>>, 10000000, 0, FALSE)>>
  /\ heap[2] = Obj("RDFDatetime", <<>>, 5000000, 0, FALSE)

\* a progress inside [0, 1] whose interpolation is no whole number
C14_WitnessRounded ==
  /\ res.tag = "lerp"
  /\ res.err = ""
  /\ ((LerpDenominator - res.num) * res.list[1].n + res.num * res.list[2].n)
       % LerpDenominator # 0

(***************************************************************************)
(* C17: Floor(interval) of an instant of whole-seconds value s with a      *)
(* Duration of d > 0 seconds returns an instant of the receiver's kind     *)
(* with no sub-second part whose seconds value r is a multiple of d with   *)
(* r <= s < r + d; an interval that is no Duration fails with TypeError;   *)
(* the receiver is unchanged.                                              *)
(***************************************************************************)
C17_FloorToInterval ==
  res.tag = "floor" =>
    LET interval == res.list[1]
        c == UnitFactor(res.old.kind)
        s == WholeSeconds(res.old)
        d == interval.n
    IN /\ heap[1] = res.old
       /\ interval.kind # "Duration" => res.err = "TypeError"
       /\ (interval.kind = "Duration" /\ d > 0) =>
            /\ res.err = ""
            /\ heap[2].kind = res.old.kind
            /\ heap[2].n % c = 0
            /\ LET r == WholeSeconds(heap[2])
               IN r % d = 0 /\ r <= s /\ s < r + d

\* 7.3 seconds floored to 2 seconds is 6 seconds
C17_Witness ==
  /\ res.tag = "floor"
  /\ res.old = Obj("RDFDatetime", <<>>, 7300000, 0, FALSE)
  /\ res.list = <<NewDuration(2)>>
  /\ heap[2] = Obj("RDFDatetime", <<>>, 6000000, 0, FALSE)

(***************************************************************************)
(* A value v of any kind in heap[1]: an integer kind parses wire bytes in  *)
(* place, and type(v).FromDatastoreValue(value) puts the instance it       *)
(* builds from a datastore scalar in heap[2].                              *)
(***************************************************************************)
\* Bytes handed to ParseFromString and texts found in datastore scalars
WireTexts ==
  {<<>>, <<"0">>, <<"7">>, <<"1", "2">>, <<"-", "3">>, <<"+", "5">>,
   <<" ", "4">>, <<"a", "b", "c">>, <<"1", ".", "5">>, <<"1", "h">>,
   <<"1", "k">>, <<"x">>, <<"-">>, <<"7", "a">>}
  \cup TextsOver({"1", "a"}, MaxDigits)

\* Scalars a datastore row can hold: bytes, unicode text, integers
DatastoreScalars ==
  {Scalar(type, s, 0) : type \in {"bytes", "unicode"}, s \in WireTexts}
  \cup {Scalar("int", <<>>, n) : n \in (0 - MaxOperand)..MaxOperand}

AllKinds == IntKinds \cup PathKinds \cup {"RDFBytes", "RDFString"}

IntInit ==
  /\ store = EmptyStore
  /\ types = <<>>
  /\ log = <<>>
  /\ nreg = 0
  /\ \E kind \in AllKinds, n \in {0, 7} :
       heap = <<IF kind \in IntKinds THEN Obj(kind, <<>>, n, 0, FALSE)
                ELSE NewValue(kind, 10), NoObj>>
  /\ res = NoRes

\* v.ParseFromString(string) on an integer kind
IntParseFromStringCall(string) ==
  /\ heap[1].kind \in IntKinds
  /\ LET out == ParseFromString(heap[1], string)
     IN /\ heap' = <<out.o, NoObj>>
        /\ res' = [NoRes EXCEPT !.tag = "wireparse", !.err = out.err,
                                !.arg = string, !.old = heap[1]]
  /\ UNCHANGED lbvars

\* type(v).FromDatastoreValue(value)
FromDatastoreValueCall(value) ==
  /\ LET out == FromDatastoreValue(heap[1].kind, value, 10)
     IN /\ heap' = <<heap[1], out.o>>
        /\ res' = [NoRes EXCEPT !.tag = "fromdatastore", !.err = out.err,
                                !.text = <<value.t>>, !.arg = value.s,
                                !.num = value.n,
                                !.ref = IF out.err = "" THEN 2 ELSE 0]
  /\ UNCHANGED lbvars

IntNext ==
  \/ \E string \in WireTexts : IntParseFromStringCall(string)
  \/ \E value \in DatastoreScalars : FromDatastoreValueCall(value)

SpecInt == IntInit /\ [][IntNext]_vars

\* The kinds whose wire form is the decimal text of the payload
DecimalWireKinds ==
  {"RDFInteger", "RDFBool", "RDFDatetime", "RDFDatetimeSeconds", "ByteSize"}

(***************************************************************************)
(* C15: ParseFromString on an integer kind given non-empty bytes that are  *)
(* no decimal integer fails with DecodeError; given decimal text it sets   *)
(* the payload to that integer; given empty bytes it sets the payload to 0.*)
(***************************************************************************)
C15_IntegerWireParse ==
  (res.tag = "wireparse" /\ heap[1].kind \in DecimalWireKinds) =>
    IF res.arg = <<>> THEN res.err = "" /\ heap[1].n = 0
    ELSE IF IsIntText(res.arg)
      THEN res.err = "" /\ heap[1].n = ParseInt(res.arg)
      ELSE res.err = "DecodeError"

\* The scalar type a kind declares in data_store_type
DeclaredScalarType(kind) ==
  IF kind = "RDFBytes" THEN "bytes"
  ELSE IF kind \in {"RDFString", "RDFURN", "SessionID"} THEN "unicode"
  ELSE "int"

(***************************************************************************)
(* C16: FromDatastoreValue(scalar) of every kind fails with a type error   *)
(* whenever the scalar's type (bytes, text, integer) is not the one the    *)
(* kind declares, and never converts it: an integer-family kind given a    *)
(* text or bytes scalar fails.                                             *)
(***************************************************************************)
C16_DatastoreTypeChecked ==
  (res.tag = "fromdatastore" /\ res.text[1] # DeclaredScalarType(heap[1].kind)) =>
    /\ res.err = "TypeError"
    /\ heap[2] = NoObj

(***************************************************************************)
(* C18: a freshly constructed path identifier is not dirty; after any      *)
(* call to Update (with url, path, both or neither) the instance is dirty; *)
(* no operation clears the flag, so a dirty instance is dirty in every     *)
(* later state; the instance Add returns is dirty and Add's receiver keeps *)
(* the flag it had.  (A step that leaves res empty is the caller going on  *)
(* with the returned instance, which keeps its flag.)                      *)
(***************************************************************************)
C18_DirtyFlagMonotone ==
  /\ ~heap[1].dirty
  /\ [][/\ res'.tag = "update" => heap'[1].dirty
        /\ res'.tag # "none" => (heap[1].dirty => heap'[1].dirty)
        /\ res'.tag = "none" => heap'[1].dirty = heap[2].dirty
        /\ (res'.tag = "add" /\ res'.err = "") =>
             /\ heap'[2].dirty
             /\ heap'[1].dirty = heap[1].dirty
        /\ (res'.tag \in {"copy", "session", "session_default"} /\ res'.err = "") =>
             ~heap'[2].dirty]_vars

\* a dirty instance was parsed anew and is still dirty
C18_Witness ==
  /\ res.tag = "parse"
  /\ heap[1].dirty
  /\ heap[1].s = <<"/", "a">>

\* Add on a clean receiver returned a dirty instance
C18_WitnessAdd ==
  /\ res.tag = "add"
  /\ res.err = ""
  /\ ~heap[1].dirty
  /\ heap[2].dirty

\* The queue pending for a name
Pending(s, name) == IF name \in DOMAIN s THEN s[name] ELSE <<>>

IsPrefix(p, q) == Len(p) <= Len(q) /\ SubSeq(q, 1, Len(p)) = p

(***************************************************************************)
(* C19: declaring a type named N invokes only the callbacks registered     *)
(* under N, in the order they were registered, and leaves the pending      *)
(* queue of every other name unchanged; registering a callback invokes     *)
(* nothing, also when its name has been declared before, and a pending     *)
(* callback stays pending until a type of its name is declared.            *)
(***************************************************************************)
C19_LateBindingIsolationAndOrder ==
  [][/\ \A N \in Names :
          IsDeclareStep(N) =>
            /\ [i \in 1..Len(NewInvocations) |-> NewInvocations[i].id]
                 = [i \in 1..Len(Pending(store, N)) |-> Pending(store, N)[i].id]
            /\ \A i, j \in 1..Len(NewInvocations) :
                 i < j => NewInvocations[i].id < NewInvocations[j].id
            /\ \A M \in Names \ {N} : Pending(store', M) = Pending(store, M)
     /\ \A N \in Names :
          ~IsDeclareStep(N) => IsPrefix(Pending(store, N), Pending(store', N))
     /\ nreg' = nreg + 1 =>
          /\ log' = log
          /\ \E N \in Names :
               /\ Len(Pending(store', N)) = Len(Pending(store, N)) + 1
               /\ Pending(store', N)[Len(Pending(store', N))].id = nreg']_vars

\* A was declared, two callbacks were registered under A afterwards and one
\* under B; the second declaration of A invoked A's two in order, B's is
\* still pending
C19_Witness ==
  /\ Len(types) = 2
  /\ types[1].name = "A"
  /\ types[2].name = "A"
  /\ Len(log) = 2
  /\ log[1].target = types[2]
  /\ log[2].target = types[2]
  /\ log[1].id < log[2].id
  /\ Len(Pending(store, "B")) = 1

=============================================================================
